---------------------------- MODULE Spec2Model ----------------------------
(* Model of run.py: link discovery (extract_video_urls), the per-task     *)
(* retry loop (download_video_with_progress), and the pool orchestration  *)
(* with overall progress (download_videos_in_parallel, main).             *)
EXTENDS Integers, Sequences, FiniteSets, Bags, TLC

(* ------------------------------ bounds -------------------------------- *)
\* The retry limit `retries` (MAX_RETRIES, 10 in run.py) ranges over 0..MaxRetries.
MaxRetries == 2
\* Pool size (MAX_WORKERS, 5 in run.py) scaled down so that the pool is
\* smaller than the largest set of discovered URLs.
MAX_WORKERS == 2

(* ------------------------------ strings ------------------------------- *)
VIDEO_DOMAINS == <<"youtube.com", "youtu.be", "vimeo.com", "dailymotion.com">>

U_YT    == "https://youtube.com/watch?v=abc"
U_PAGE  == "https://example.com/watch"
S_CLIP  == "clip.mp4"
S_VIMEO == "https://player.vimeo.com/video/1"
S_YOUTU == "https://youtu.be/xyz"
S_OTHER == "https://example.com/about"

\* The URLs a user can enter, and every string that can become a task URL.
InputUrls == {U_YT, U_PAGE}
Urls      == {U_YT, U_PAGE, S_CLIP, S_VIMEO, S_YOUTU}

\* urlparse(url).netloc
Netloc(u) ==
    CASE u = U_YT    -> "youtube.com"
      [] u = U_PAGE  -> "example.com"
      [] u = S_VIMEO -> "player.vimeo.com"
      [] u = S_YOUTU -> "youtu.be"
      [] u = S_OTHER -> "example.com"
      [] OTHER       -> ""

\* Python's `d in s` (substring test) on the strings of the model.
Contains(d, s) ==
    <<d, s>> \in { <<"youtube.com", "youtube.com">>,
                   <<"youtube.com", U_YT>>,
                   <<"vimeo.com", "player.vimeo.com">>,
                   <<"vimeo.com", S_VIMEO>>,
                   <<"youtu.be", "youtu.be">>,
                   <<"youtu.be", S_YOUTU>> }

\* any(d in s for d in VIDEO_DOMAINS)
AnyVideoDomain(s) == \E i \in 1..Len(VIDEO_DOMAINS) : Contains(VIDEO_DOMAINS[i], s)

(* ------------------------------- pages -------------------------------- *)
\* A fetched page: the src of each <video>, the src of each <iframe>, the
\* href of each <a>, in document order.  "" stands for a missing or empty
\* attribute (None and "" are both falsy).
Pages ==
    { [video |-> <<>>,            iframe |-> <<S_OTHER>>,          a |-> <<S_OTHER>>],
      [video |-> <<S_CLIP>>,      iframe |-> <<>>,                 a |-> <<>>],
      [video |-> <<S_CLIP, "">>,  iframe |-> <<S_VIMEO, S_OTHER>>, a |-> <<S_VIMEO, "">>],
      [video |-> <<S_CLIP>>,      iframe |-> <<S_VIMEO>>,          a |-> <<S_YOUTU, S_OTHER>>] }

Range(s) == { s[i] : i \in 1..Len(s) }

\* `if tag.get('src')`, `if src and any(...)`, `if href and any(...)`.
HasSrc(x) == x # ""
IframeMatches(x) == x # "" /\ AnyVideoDomain(x)
HrefUnfiltered(x) == x # ""
HrefMatches(x) == x # "" /\ AnyVideoDomain(x)

\* Lines 39-55: the list video_urls before deduplication, in the order the
\* code appends to it.
Collected(p) ==
    SelectSeq(p.video, HasSrc) \o SelectSeq(p.iframe, IframeMatches)
        \o SelectSeq(p.a, HrefMatches)

\* Line 58: list({url for url in video_urls if url}).  The order of the
\* resulting list is unspecified, so a list is modelled as a bag.
NoDedup(l) ==
    [ x \in { y \in Range(l) : y # "" } |->
        Cardinality({ i \in 1..Len(l) : l[i] = x }) ]
Dedup(l) == SetToBag({ x \in Range(l) : x # "" })

\* The candidates collected from the page, deduplicated, empty entries dropped.
PageCandidates(p) == Dedup(Collected(p))

\* What the except clause of extract_video_urls returns.
OnDiscoveryErrorPassThrough(u) == SetToBag({u})
OnDiscoveryError(u) == EmptyBag

\* extract_video_urls(url), given the outcome of the page fetch/parse.
extract_video_urls(u, ok, p) ==
    IF AnyVideoDomain(Netloc(u)) THEN SetToBag({u})
    ELSE IF ~ok THEN OnDiscoveryError(u)
    ELSE IF PageCandidates(p) = EmptyBag THEN SetToBag({u})
    ELSE PageCandidates(p)

\* The outcomes of requests.get + raise_for_status + BeautifulSoup: a parsed
\* page, or an exception raised inside the try block.
Responses ==
    { [ok |-> TRUE, page |-> p] : p \in Pages }
        \cup { [ok |-> FALSE, page |-> [video |-> <<>>, iframe |-> <<>>, a |-> <<>>]] }

\* Whether extract_video_urls performs the page fetch: the domain test at
\* line 28 returns before requests.get is reached.
FetchesFirst(u) == TRUE
Fetches(u) == ~AnyVideoDomain(Netloc(u))


(* ------------------------------- state -------------------------------- *)
Idle == "idle"
\* ThreadPoolExecutor(max_workers=MAX_WORKERS): the pool's threads.
WorkersOneMore == 1..(MAX_WORKERS + 1)
Workers == 1..MAX_WORKERS

VARIABLES
    url,         \* the URL given to main (sys.argv[1] or input())
    response,    \* what the page fetch and parse will yield
    retries,     \* the retry limit passed to download_video_with_progress
    dirExists,   \* os.path.exists(OUTPUT_DIR)
    failed_log,  \* the lines of FAILED_LOG
    log0,        \* the lines of FAILED_LOG when the process started
    mainpc,      \* position of the main thread
    video_list,  \* the list returned by extract_video_urls, as a bag
    video_urls,  \* the distinct URLs of video_list: the keys of progress_bars
    submits,     \* number of executor.submit calls made for each URL
    fetches,     \* number of page fetches made
    queue,       \* the executor's work queue: submitted, not yet started
    worker,      \* the task each pool thread is running, or Idle
    pc,          \* position of each task inside download_video_with_progress
    attempt,     \* the loop variable `attempt` of each task
    calls,       \* number of ydl.download calls made for each task
    fails,       \* number of ydl.download calls that raised, per task
    succAt,      \* the call number on which ydl.download returned, or 0
    yielded,     \* futures already yielded by as_completed
    overall,     \* overall.n, the overall progress counter
    progress_bars, \* progress_bars[url].n, the per-task percentage
    bytes_done   \* bytes the Extractor has transferred in the current attempt

vars == <<url, response, retries, dirExists, failed_log, log0, mainpc,
          video_list, submits, video_urls, fetches, queue, worker, pc, attempt, calls, fails,
          succAt, yielded, overall, progress_bars, bytes_done>>

env   == <<url, response, retries, log0>>
ghost == <<calls, fails, succAt>>

\* Positions at which download_video_with_progress has ended:
\*   "succeeded"  returned at line 116 after ydl.download returned,
\*   "returned"   fell out of the for loop and returned None,
\*   "raised"     an exception left the function (os.makedirs).
Terminal == {"succeeded", "returned", "raised"}
\* Positions inside the `with open(FAILED_LOG, 'a') as f:` block.
InAppend == {"write", "close"}
InFlight(t) == pc[t] \notin ({"none", "queued"} \cup Terminal)

Init ==
    /\ url \in InputUrls
    /\ response \in Responses
    /\ retries \in 0..MaxRetries
    /\ dirExists \in BOOLEAN
    /\ log0 \in {<<>>, <<S_CLIP>>}
    /\ failed_log = log0
    /\ mainpc = "main"
    /\ video_list = EmptyBag
    /\ video_urls = {}
    /\ submits = [t \in Urls |-> 0]
    /\ fetches = 0
    /\ queue = <<>>
    /\ worker = [w \in Workers |-> Idle]
    /\ pc = [t \in Urls |-> "none"]
    /\ attempt = [t \in Urls |-> 0]
    /\ calls = [t \in Urls |-> 0]
    /\ fails = [t \in Urls |-> 0]
    /\ succAt = [t \in Urls |-> 0]
    /\ yielded = {}
    /\ overall = 0
    /\ progress_bars = [t \in {} |-> 0]
    /\ bytes_done = [t \in Urls |-> 0]

(* ---------------------------- main thread ----------------------------- *)
\* main: extract_video_urls, the "No valid video links found" return, and
\* the creation of the progress bars at the start of download_videos_in_parallel.
Discover ==
    /\ mainpc = "main"
    /\ video_list' = extract_video_urls(url, response.ok, response.page)
    /\ video_urls' = BagToSet(video_list')
    /\ fetches' = IF Fetches(url) THEN fetches + 1 ELSE fetches
    /\ mainpc' = IF video_urls' = {} THEN "exit" ELSE "submit"
    /\ overall' = 0
    /\ progress_bars' = [t \in video_urls' |-> 0]
    /\ UNCHANGED <<env, bytes_done, submits, ghost, dirExists, failed_log,
                   queue, worker, pc, attempt, yielded>>

\* One executor.submit of the dict comprehension at line 149: one per
\* element of the list.
Submit(u) ==
    /\ mainpc = "submit"
    /\ submits[u] < CopiesIn(u, video_list)
    /\ submits' = [submits EXCEPT ![u] = @ + 1]
    /\ pc' = [pc EXCEPT ![u] = "queued"]
    /\ queue' = Append(queue, u)
    /\ mainpc' = IF \A v \in video_urls : submits'[v] = CopiesIn(v, video_list)
                   THEN "wait" ELSE "submit"
    /\ UNCHANGED <<env, progress_bars, video_list, ghost, bytes_done,
                   dirExists, failed_log, video_urls, fetches, worker,
                   attempt, yielded, overall>>

\* as_completed: the finished futures not yet yielded.
PendingAgain(done, seen) == done
Pending(done, seen) == done \ seen

\* Whether an exception of future.result() leaves the for loop: the
\* `except Exception` at line 156 catches it.
ResultUncaught(raised) == raised
ResultPropagates(raised) == FALSE

\* overall.update(1) at line 158, after the try statement.
UpdateOnlyOnReturn(n, raised) == IF raised THEN n ELSE n + 1
OverallAfter(n, raised) == n + 1

\* The as_completed loop ends when every future has been yielded.
LoopEndsEarly(seen, all) == seen # {}
LoopEnds(seen, all) == seen = all

\* One iteration of the as_completed loop; leaving the loop ends the
\* `with` block (all tasks have finished by then).
Collect(u) ==
    /\ mainpc = "wait"
    /\ u \in Pending({t \in video_urls : pc[t] \in Terminal}, yielded)
    /\ yielded' = yielded \cup {u}
    /\ IF ResultPropagates(pc[u] = "raised")
         THEN /\ mainpc' = "crashed"
              /\ overall' = overall
         ELSE /\ overall' = OverallAfter(overall, pc[u] = "raised")
              /\ mainpc' = IF LoopEnds(yielded', video_urls) THEN "close" ELSE "wait"
    /\ UNCHANGED <<env, progress_bars, video_list, submits, ghost, bytes_done,
                   dirExists, failed_log, video_urls, fetches, queue, worker,
                   pc, attempt>>

\* overall.close() and the bar.close() loops; download_videos_in_parallel
\* and main return.
Close ==
    /\ mainpc = "close"
    /\ mainpc' = "done"
    /\ UNCHANGED <<env, progress_bars, video_list, submits, ghost, bytes_done,
                   dirExists, failed_log, video_urls, fetches, queue, worker,
                   pc, attempt, yielded, overall>>

Main == Discover \/ (\E u \in Urls : Submit(u)) \/ (\E u \in Urls : Collect(u)) \/ Close

(* --------------------- download_video_with_progress ------------------- *)
\* range(1, retries + 1): the exclusive end of the attempt range.
RangeEndOneMore(r) == r + 2
RangeEnd(r) == r + 1

\* The next iteration of `for attempt in range(1, retries + 1)` after
\* attempt a (0 before the first), or the return when the range is exhausted.
Iterate(a, r) ==
    IF a + 1 < RangeEnd(r)
      THEN [pc |-> "download", attempt |-> a + 1]
      ELSE [pc |-> "returned", attempt |-> a]

\* Lines 115-116: after ydl.download returns, the function returns.
AfterSuccessNoReturn(a, r) == Iterate(a, r)
AfterSuccess(a, r) == [pc |-> "succeeded", attempt |-> a]

\* Line 126: `if attempt == retries`.
EveryAttempt(a, r) == TRUE
IsLastAttempt(a, r) == a = r

\* Task t, run by pool thread w, moves to position nxt; a thread whose task
\* function has ended is free for the next work item.
Goto(w, t, nxt) ==
    /\ pc' = [pc EXCEPT ![t] = nxt.pc]
    /\ attempt' = [attempt EXCEPT ![t] = nxt.attempt]
    /\ calls' = [calls EXCEPT ![t] = IF nxt.pc = "download" THEN @ + 1 ELSE @]
    /\ worker' = [worker EXCEPT ![w] = IF nxt.pc \in Terminal THEN Idle ELSE @]
    /\ bytes_done' = [bytes_done EXCEPT ![t] = 0]

At(t, p) == [pc |-> p, attempt |-> attempt[t]]

\* A pool thread with no task takes the oldest queued work item.
Start(w) ==
    /\ worker[w] = Idle
    /\ queue # <<>>
    /\ worker' = [worker EXCEPT ![w] = Head(queue)]
    /\ queue' = Tail(queue)
    /\ pc' = [pc EXCEPT ![Head(queue)] = "exists"]
    /\ UNCHANGED <<env, progress_bars, video_list, submits, ghost, bytes_done,
                   dirExists, failed_log, mainpc, video_urls, fetches,
                   attempt, yielded, overall>>

\* Line 97: `if not os.path.exists(output_dir)`.
CheckDir(w) ==
    /\ worker[w] # Idle
    /\ pc[worker[w]] = "exists"
    /\ Goto(w, worker[w], IF dirExists THEN Iterate(0, retries)
                                       ELSE At(worker[w], "makedirs"))
    /\ UNCHANGED <<env, progress_bars, video_list, submits, fails, succAt,
                   dirExists, failed_log, mainpc, video_urls, fetches, queue,
                   yielded, overall>>

\* Line 98: os.makedirs(output_dir) raises FileExistsError when the
\* directory exists by now.
MakeDirs(w) ==
    /\ worker[w] # Idle
    /\ pc[worker[w]] = "makedirs"
    /\ IF dirExists
         THEN /\ Goto(w, worker[w], At(worker[w], "raised"))
              /\ UNCHANGED dirExists
         ELSE /\ dirExists' = TRUE
              /\ Goto(w, worker[w], Iterate(0, retries))
    /\ UNCHANGED <<env, progress_bars, video_list, submits, fails, succAt,
                   failed_log, mainpc, video_urls, fetches, queue, yielded,
                   overall>>

\* Lines 113-116: ydl.download returns normally.
DownloadOk(w) ==
    /\ worker[w] # Idle
    /\ pc[worker[w]] = "download"
    /\ succAt' = [succAt EXCEPT ![worker[w]] = calls[worker[w]]]
    /\ Goto(w, worker[w], AfterSuccess(attempt[worker[w]], retries))
    /\ UNCHANGED <<env, progress_bars, video_list, submits, fails, dirExists,
                   failed_log, mainpc, video_urls, fetches, queue, yielded,
                   overall>>

\* Lines 117-126: ydl.download raises; the handler either goes on to log
\* the URL or ends, and the loop takes its next iteration.
DownloadFail(w) ==
    /\ worker[w] # Idle
    /\ pc[worker[w]] = "download"
    /\ fails' = [fails EXCEPT ![worker[w]] = @ + 1]
    /\ Goto(w, worker[w], IF IsLastAttempt(attempt[worker[w]], retries)
                            THEN At(worker[w], "open")
                            ELSE Iterate(attempt[worker[w]], retries))
    /\ UNCHANGED <<env, progress_bars, video_list, submits, succAt, dirExists,
                   failed_log, mainpc, video_urls, fetches, queue, yielded,
                   overall>>

\* Line 127: open(FAILED_LOG, 'a').
LogOpen(w) ==
    /\ worker[w] # Idle
    /\ pc[worker[w]] = "open"
    /\ Goto(w, worker[w], At(worker[w], "write"))
    /\ UNCHANGED <<env, progress_bars, video_list, submits, fails, succAt,
                   dirExists, failed_log, mainpc, video_urls, fetches, queue,
                   yielded, overall>>

\* Line 128: f.write(f"{url}\n") into the file object's buffer.
LogWrite(w) ==
    /\ worker[w] # Idle
    /\ pc[worker[w]] = "write"
    /\ Goto(w, worker[w], At(worker[w], "close"))
    /\ UNCHANGED <<env, progress_bars, video_list, submits, fails, succAt,
                   dirExists, failed_log, mainpc, video_urls, fetches, queue,
                   yielded, overall>>

\* End of the with block: the buffered line is flushed to the end of the
\* file and the file is closed; then line 129 and the next loop iteration.
LogClose(w) ==
    /\ worker[w] # Idle
    /\ pc[worker[w]] = "close"
    /\ failed_log' = Append(failed_log, worker[w])
    /\ Goto(w, worker[w], Iterate(attempt[worker[w]], retries))
    /\ UNCHANGED <<env, progress_bars, video_list, submits, fails, succAt,
                   dirExists, mainpc, video_urls, fetches, queue, yielded,
                   overall>>

(* ---------------------------- progress_hook --------------------------- *)
\* A key that the event dict does not have.
Absent == -1

\* The byte counts of the model's progress events.
ByteCounts == {0, 1, 2}

\* The byte totals an event can carry: no key, a falsy value (0 stands for
\* 0 and for None), or a positive count.
Totals == {Absent} \cup ByteCounts

\* The progress events the Extractor can deliver: an exact total_bytes is
\* never below downloaded_bytes; an estimate can be.
Events ==
    { d \in [status : {"downloading", "finished"},
             total_bytes : Totals,
             total_bytes_estimate : Totals,
             downloaded_bytes : ByteCounts] :
        d.total_bytes > 0 => d.downloaded_bytes <= d.total_bytes }

\* Line 75: `if data['status'] == 'downloading'`.
AnyStatus(st) == TRUE
IsDownloading(st) == st = "downloading"

\* Line 88: (done / total) * 100 if total else 0.  The byte counts of the
\* model divide 100 * done exactly.
Percent(done, total) == IF total # 0 THEN (done * 100) \div total ELSE 0

\* progress_hook(data, url): the bars after the call.
progress_hook(bars, data, u) ==
    IF IsDownloading(data.status)
      THEN IF data.total_bytes # Absent
             THEN [bars EXCEPT ![u] = Percent(data.downloaded_bytes, data.total_bytes)]
           ELSE IF data.total_bytes_estimate # Absent
             THEN [bars EXCEPT ![u] =
                      Percent(data.downloaded_bytes, data.total_bytes_estimate)]
           ELSE bars
      ELSE bars

\* Line 107: the hook of a task is `lambda d: progress_hook(d, url)` with
\* the task's own url.
HookUrlShared(t, all) == CHOOSE u \in all : TRUE
HookUrl(t, all) == t

\* The Extractor, inside ydl.download on pool thread w, has transferred
\* data.downloaded_bytes bytes and calls the task's progress hook.
Hook(w, data) ==
    /\ worker[w] # Idle
    /\ pc[worker[w]] = "download"
    /\ data.downloaded_bytes >= bytes_done[worker[w]]
    /\ bytes_done' = [bytes_done EXCEPT ![worker[w]] = data.downloaded_bytes]
    /\ progress_bars' = progress_hook(progress_bars, data, HookUrl(worker[w], video_urls))
    /\ UNCHANGED <<env, video_list, submits, ghost, dirExists, failed_log,
                   mainpc, video_urls, fetches, queue, worker, pc, attempt,
                   yielded, overall>>

Worker(w) ==
    \/ Start(w) \/ CheckDir(w) \/ MakeDirs(w) \/ DownloadOk(w)
    \/ DownloadFail(w) \/ LogOpen(w) \/ LogWrite(w) \/ LogClose(w)

Next == Main \/ (\E w \in Workers : Worker(w))

Spec == Init /\ [][Next]_vars

\* Every thread that can take a step eventually takes one, and every
\* ydl.download call eventually returns or raises.
FairSpec == Spec /\ WF_vars(Main) /\ (\A w \in Workers : WF_vars(Worker(w)))

\* The program with the Extractor's progress events.  Hook changes only
\* progress_bars and bytes_done, which no other action reads.  The inputs
\* are a page with two candidates and an empty failure log, with
\* MaxRetries attempts per task.
ProgressInit ==
    /\ Init
    /\ url = U_PAGE
    /\ response.ok
    /\ Cardinality(BagToSet(PageCandidates(response.page))) = 2
    /\ retries = MaxRetries
    /\ log0 = <<>>

ProgressNext == Next \/ (\E w \in Workers, data \in Events : Hook(w, data))

ProgressSpec == ProgressInit /\ [][ProgressNext]_vars

(* ----------------------------- properties ----------------------------- *)
Count(log, line) == Cardinality({ i \in 1..Len(log) : log[i] = line })

\* Lines equal to t's URL that this run has added to FAILED_LOG.
Appended(t) == Count(failed_log, t) - Count(log0, t)

Submitted == { t \in Urls : pc[t] # "none" }

\* Task states of the specification.
Succeeded(t) == pc[t] = "succeeded"
Failed(t)    == pc[t] = "returned" /\ fails[t] = retries /\ Appended(t) = 1

\* C1: with a retry limit R >= 1, a task whose R attempts all failed has made
\* exactly R Extractor calls, never makes another, and has appended exactly
\* one line, its URL, to the failure log by the time it ends.
Thm_C1_ExhaustedLogsOnce ==
    \A t \in Urls :
        (retries >= 1 /\ fails[t] >= retries) =>
            /\ calls[t] = retries
            /\ fails[t] = retries
            /\ Appended(t) <= 1
            /\ pc[t] \in Terminal => (pc[t] = "returned" /\ Appended(t) = 1)

Wit_C1_ExhaustedLogsOnce ==
    \E t \in Urls :
        /\ retries >= 2
        /\ fails[t] = retries
        /\ pc[t] = "returned"
        /\ Appended(t) = 1
        /\ mainpc = "done"

\* C2: a task whose Extractor call number k returned is Succeeded from then
\* on, k is at most the retry limit, and the task has made exactly k calls.
Thm_C2_SuccessStopsRetrying ==
    \A t \in Urls :
        /\ succAt[t] # 0 =>
              /\ pc[t] = "succeeded"
              /\ calls[t] = succAt[t]
              /\ attempt[t] = succAt[t]
              /\ succAt[t] <= retries
        /\ pc[t] = "succeeded" => succAt[t] # 0

Wit_C2_SuccessStopsRetrying ==
    \E t \in Urls :
        /\ succAt[t] = 1
        /\ retries >= 2
        /\ calls[t] = 1
        /\ mainpc = "done"

\* C3: when download_videos_in_parallel has returned (retry limit >= 1),
\* every submitted task is Succeeded or Failed; none ended by an exception.
Cex_C3_AllTasksSucceededOrFailed ==
    (mainpc = "done" /\ retries >= 1) =>
        \A t \in video_urls : Succeeded(t) \/ Failed(t)

\* C4: under fair scheduling the run eventually ends: either with nothing to
\* download, or with every submitted task finished and awaited.
Thm_C4_OrchestrationCompletes ==
    <>( \/ mainpc = "exit"
        \/ /\ mainpc = "done"
           /\ Submitted = video_urls
           /\ yielded = video_urls
           /\ \A t \in video_urls : pc[t] \in Terminal )

Wit_C4_OrchestrationCompletes ==
    /\ mainpc = "done"
    /\ retries >= 1
    /\ Cardinality(video_urls) > MAX_WORKERS
    /\ \A t \in video_urls : fails[t] = retries /\ pc[t] = "returned"

\* C5: the overall counter never exceeds the number of submitted tasks and
\* equals it when download_videos_in_parallel has returned.
Thm_C5_OverallCounter ==
    /\ overall <= Cardinality(Submitted)
    /\ mainpc = "done" =>
          /\ overall = Cardinality(Submitted)
          /\ Submitted = video_urls

Wit_C5_OverallCounter ==
    /\ mainpc = "done"
    /\ overall = 3
    /\ \E t \in video_urls : pc[t] = "raised"

\* C6: at most MAX_WORKERS tasks are in flight, every task in flight is held
\* by exactly one pool thread, and a pool thread lets go of its task only
\* when the task function has ended.
PoolBound ==
    /\ Cardinality({ t \in Urls : InFlight(t) }) <= MAX_WORKERS
    /\ \A t \in Urls :
          InFlight(t) => Cardinality({ w \in DOMAIN worker : worker[w] = t }) = 1
    /\ \A w \in DOMAIN worker : worker[w] # Idle => InFlight(worker[w])

RunsToCompletion ==
    \A w \in DOMAIN worker :
        (worker[w] # Idle /\ worker'[w] # worker[w]) =>
            /\ pc'[worker[w]] \in Terminal
            /\ worker'[w] = Idle

Thm_C6_PoolBound == []PoolBound /\ [][RunsToCompletion]_vars

Wit_C6_PoolBound ==
    /\ Cardinality({ t \in Urls : InFlight(t) }) = MAX_WORKERS
    /\ queue # <<>>

\* C7: at most one task is inside the open-write-close section of the
\* failure log.
Cex_C7_AppendMutex ==
    Cardinality({ t \in Urls : pc[t] \in InAppend }) <= 1

\* C8: no task's directory creation fails, and the output directory exists
\* whenever an Extractor call is in progress.
Cex_C8_DirCreatedIdempotently ==
    /\ \A t \in Urls : pc[t] # "raised"
    /\ \A t \in Urls : pc[t] = "download" => dirExists

\* C9: a task that has succeeded, or has not yet failed its last attempt,
\* has added no line to the failure log.
Thm_C9_NoLogBeforeLastFailure ==
    \A t \in Urls :
        (succAt[t] # 0 \/ fails[t] < retries) => Appended(t) = 0

Wit_C9_NoLogBeforeLastFailure ==
    \E t \in Urls :
        /\ retries >= 2
        /\ succAt[t] = retries
        /\ fails[t] = retries - 1
        /\ Appended(t) = 0
        /\ failed_log # log0

\* C10: after a failed page fetch or parse, discovery has returned nothing
\* and main has ended: no task exists, no Extractor call was made and the
\* failure log is as it was.
Thm_C10_DiscoveryFailureEndsRun ==
    (mainpc # "main" /\ Fetches(url) /\ ~response.ok) =>
        /\ video_urls = {}
        /\ mainpc = "exit"
        /\ queue = <<>>
        /\ \A t \in Urls : pc[t] = "none" /\ calls[t] = 0
        /\ failed_log = log0

Wit_C10_DiscoveryFailureEndsRun ==
    /\ mainpc = "exit"
    /\ ~response.ok
    /\ fetches = 1

\* C11: for a URL whose host contains a recognised video domain, discovery
\* has returned exactly that URL, once, and has made no page fetch.
Thm_C11_VideoDomainPassThrough ==
    (mainpc # "main" /\ AnyVideoDomain(Netloc(url))) =>
        /\ video_list = SetToBag({url})
        /\ fetches = 0

Wit_C11_VideoDomainPassThrough ==
    /\ mainpc = "done"
    /\ url = U_YT
    /\ response.ok
    /\ video_urls = {U_YT}
    /\ fetches = 0

\* C12: for a successfully fetched page, discovery returns exactly the
\* original URL when the page has no <video> with a src, no <iframe> and no
\* <a> whose target contains a video domain; otherwise it returns the
\* non-empty candidates of the page, each exactly once.
HasCandidate(p) ==
    \/ \E i \in 1..Len(p.video) : p.video[i] # ""
    \/ \E i \in 1..Len(p.iframe) : p.iframe[i] # "" /\ AnyVideoDomain(p.iframe[i])
    \/ \E i \in 1..Len(p.a) : p.a[i] # "" /\ AnyVideoDomain(p.a[i])

CandidateSet(p) ==
    { x \in Range(p.video) \cup Range(p.iframe) \cup Range(p.a) :
        /\ x # ""
        /\ \/ x \in Range(p.video)
           \/ (x \in Range(p.iframe) \cup Range(p.a) /\ AnyVideoDomain(x)) }

Thm_C12_PageDiscovery ==
    (mainpc # "main" /\ Fetches(url) /\ response.ok) =>
        IF ~HasCandidate(response.page)
          THEN video_list = SetToBag({url})
          ELSE /\ BagToSet(video_list) = CandidateSet(response.page)
               /\ BagToSet(video_list) # {}
               /\ \A x \in BagToSet(video_list) :
                     x # "" /\ CopiesIn(x, video_list) = 1

Wit_C12_PageDiscovery ==
    /\ mainpc # "main"
    /\ Fetches(url)
    /\ response.ok
    /\ \E i \in 1..Len(response.page.iframe), j \in 1..Len(response.page.a) :
          /\ response.page.iframe[i] = response.page.a[j]
          /\ CopiesIn(response.page.a[j], video_list) = 1

\* C13: while a task stays in the same attempt, its percentage never
\* decreases.
Cex_C13_PercentMonotone ==
    [][ \A t \in DOMAIN progress_bars :
          (t \in DOMAIN progress_bars' /\ calls'[t] = calls[t]) =>
              progress_bars'[t] >= progress_bars[t] ]_vars

\* C14: a call of the progress hook with an event whose status is not
\* 'downloading', or that has neither total_bytes nor total_bytes_estimate,
\* leaves every percentage and the overall counter unchanged.
Ignored(data) ==
    \/ data.status # "downloading"
    \/ data.total_bytes = Absent /\ data.total_bytes_estimate = Absent

IgnoredEvents == { data \in Events : Ignored(data) }

Thm_C14_IgnoredEvents ==
    [][ \A w \in Workers :
          (worker[w] # Idle /\ pc' = pc) =>
              \A data \in IgnoredEvents :
                  (data.downloaded_bytes = bytes_done'[worker[w]] /\ Hook(w, data)) =>
                      (progress_bars' = progress_bars /\ overall' = overall) ]_vars

\* The Extractor has reported 2 bytes while the bar shows 50: no event with
\* 2 bytes downloaded sets 50, so that event was ignored.
Wit_C14_IgnoredEvents ==
    \E t \in DOMAIN progress_bars :
        /\ pc[t] = "download"
        /\ bytes_done[t] = 2
        /\ progress_bars[t] = 50

\* C15: once download_videos_in_parallel has closed the bars, every task
\* function has ended, and no percentage and no overall count changes.
Thm_C15_NoUpdateAfterClose ==
    /\ [](mainpc = "done" => \A t \in video_urls : pc[t] \in Terminal)
    /\ [][ mainpc = "done" =>
             (progress_bars' = progress_bars /\ overall' = overall) ]_vars

Wit_C15_NoUpdateAfterClose ==
    /\ mainpc = "done"
    /\ overall = 2
    /\ \A t \in video_urls : progress_bars[t] > 0

\* C16: an entry of progress_bars changes only in a step of the pool thread
\* that is running that entry's task inside ydl.download, and that step
\* leaves every other entry unchanged.
Thm_C16_OwnEntryOnly ==
    [][ \A t \in DOMAIN progress_bars :
          (t \in DOMAIN progress_bars' /\ progress_bars'[t] # progress_bars[t]) =>
              /\ \E w \in DOMAIN worker : worker[w] = t
              /\ pc[t] = "download"
              /\ \A u \in DOMAIN progress_bars \ {t} :
                    progress_bars'[u] = progress_bars[u] ]_vars

Wit_C16_OwnEntryOnly ==
    /\ pc[S_CLIP] = "download"
    /\ pc[S_VIMEO] = "download"
    /\ progress_bars[S_CLIP] = 50
    /\ progress_bars[S_VIMEO] = 100

\* C18: every percentage is within 0..100.
Cex_C18_PercentRange ==
    \A t \in DOMAIN progress_bars :
        progress_bars[t] >= 0 /\ progress_bars[t] <= 100

\* C17: every URL of the list is submitted exactly once, at most one pool
\* thread runs a URL's task, and an Extractor call for a task is made only
\* when all its earlier calls have failed.
Thm_C17_OneTaskSequentialAttempts ==
    \A u \in Urls :
        /\ submits[u] <= 1
        /\ u \notin video_urls => submits[u] = 0
        /\ (u \in video_urls /\ mainpc \in {"wait", "close", "done"}) => submits[u] = 1
        /\ Cardinality({ w \in DOMAIN worker : worker[w] = u }) <= 1
        /\ calls[u] - fails[u] = IF pc[u] = "download" \/ succAt[u] # 0 THEN 1 ELSE 0

Wit_C17_OneTaskSequentialAttempts ==
    \E u, v \in video_urls :
        /\ u # v
        /\ pc[u] = "download" /\ calls[u] = 2 /\ fails[u] = 1 /\ submits[u] = 1
        /\ pc[v] = "download"
        /\ Cardinality({ i \in 1..Len(response.page.iframe) :
                           response.page.iframe[i] = u }) = 1
        /\ Cardinality({ i \in 1..Len(response.page.a) :
                           response.page.a[i] = u }) = 1

\* C19: the overall counter counts exactly the futures as_completed has
\* yielded, each once, every one of them a task whose function has ended
\* (returned or raised), and all of them when the orchestration is done.
Thm_C19_OverallCountsFinished ==
    /\ overall = Cardinality(yielded)
    /\ yielded \subseteq { t \in video_urls : pc[t] \in Terminal }
    /\ overall <= Cardinality({ t \in Urls : pc[t] \in Terminal })
    /\ mainpc = "done" => yielded = video_urls

Wit_C19_OverallCountsFinished ==
    /\ mainpc = "wait"
    /\ overall = 1
    /\ \E t \in yielded : pc[t] = "raised"
    /\ \E t \in video_urls : InFlight(t)

\* C20: with a retry limit of 0 a task makes no Extractor call, writes
\* nothing to the failure log and returns normally, neither Succeeded nor
\* Failed, and is counted by the overall counter.
Cex_C20_ZeroRetries ==
    retries = 0 =>
        /\ \A t \in Urls :
              /\ calls[t] = 0
              /\ Appended(t) = 0
              /\ pc[t] \in Terminal =>
                    (pc[t] = "returned" /\ ~Succeeded(t) /\ ~Failed(t))
        /\ mainpc = "done" => overall = Cardinality(video_urls)

=============================================================================
